---- MODULE Spec2Model ----
(***************************************************************************)
(* ChessForgeAI analysis pipeline: the ingestion task, the per-game        *)
(* analysis task and the per-user progress hash they share.                *)
(*                                                                         *)
(* Conventions.  A call of a library or of a collaborator (the Lichess     *)
(* API, the engine, the Redis client) either returns its result or raises; *)
(* both outcomes are enumerated.  The task bodies are followed statement   *)
(* by statement, one action per externally visible step (a database        *)
(* commit, a Redis write, an engine evaluation, an enqueue).  The tasks    *)
(* take analyze_game and fetch_user_games for what they return: the list   *)
(* of results, the list of games.                                          *)
(***************************************************************************)
EXTENDS Integers, Sequences, FiniteSets, TLC

\* ------------------------------------------------------------------ bounds
\* Number of distinct games the external source can ever return.
MaxGames == 2
\* Number of register / refresh-games requests accepted in one run.
MaxRequests == 2
\* Number of times analyze_game_task is invoked again for a stored game.
MaxReruns == 1

\* The only user that registers in this model.
UserId == 1

\* The answers of the external source: the games the user has played so
\* far, which only become more.
Answers == {1..k : k \in 0..MaxGames}

\* Number of plies of the game with external id l: the games of the source
\* differ in length, and one of them has an empty move sequence.
Plies(l) == (l + 1) % 3

\* The "no value" of Python, as written into and read from records.
None == 0

VARIABLES
    registered,   \* the users table: has UserId registered
    games,        \* the games table, a sequence of rows; Game.id is the index
    analysis,     \* the game_analysis table, rows in insertion order
    progress,     \* the Redis hash analysis_progress:<UserId>; field -> value
    fetches,      \* fetch_user_games_task instances, in enqueue order
    jobs,         \* analyze_game_task instances, in enqueue order
    response,     \* the last value returned to a caller of a function
    ttl           \* the seconds the key of the progress hash has left to live

vars ==
    <<registered, games, analysis, progress, fetches, jobs, response, ttl>>

\* No read function has been called.
NoResponse == [op |-> "none"]

\* ------------------------------------------------------------ Redis hash
\* The hash with no field: the key does not exist.
NoHash == [f \in {} |-> None]

\* redis_client.hset(key, mapping=m): the fields of m are set, the other
\* fields of the hash are kept.
hset(h, m) ==
    [f \in (DOMAIN h) \cup (DOMAIN m) |-> IF f \in DOMAIN m THEN m[f] ELSE h[f]]

\* dict.get(field, default)
Get(h, f, d) == IF f \in DOMAIN h THEN h[f] ELSE d

\* update_analysis_progress(user_id, progress_data): hset, then expire; any
\* exception of the client is logged and swallowed (False is returned), and
\* the hash is then left as it was.  ok says whether the client call
\* succeeded.
update_analysis_progress(h, m, ok) == IF ok THEN hset(h, m) ELSE h

\* The time to live of a key that has no expiry, and of no key.
NoTtl == -1

\* The lifetime update_analysis_progress gives the key, in seconds.
KeyLifetime == 86400

\* redis_client.expire(key, 86400) at the end of update_analysis_progress;
\* ok as above.
expire(t, ok) == IF ok THEN KeyLifetime ELSE t

\* ---------------------------------------------------------------- helpers
RECURSIVE SetToSeq(_)
SetToSeq(S) ==
    IF S = {} THEN << >>
    ELSE LET m == CHOOSE x \in S : \A y \in S : x <= y
         IN <<m>> \o SetToSeq(S \ {m})

\* A lookup that finds no game, whatever is stored.
GameNeverExists(l) == l = None

\* db.query(Game).filter(Game.lichess_game_id == l).first() is not None
GameExists(l) == \E i \in 1..Len(games) : games[i].lichess_game_id = l

\* The rows of game g in the game_analysis table, as the move numbers in
\* insertion order.
RECURSIVE MovesOf(_, _)
MovesOf(rows, g) ==
    IF rows = << >> THEN << >>
    ELSE IF Head(rows).game_id = g
         THEN <<Head(rows).move_number>> \o MovesOf(Tail(rows), g)
         ELSE MovesOf(Tail(rows), g)

\* --------------------------------------------------------------- requests
\* fetch_user_games_task.delay(user_id, lichess_username): a task instance
\* with its local variables games_data (as staged) and stored_games, and
\* the number of times the queue has retried it (self.request.retries of
\* the bound task; the task never asks for a retry).
NewFetch == [pc |-> "queued", new |-> << >>, stored |-> << >>, retries |-> 0]

\* POST /auth/register: the user row is created and the ingestion task is
\* enqueued.
register ==
    /\ ~registered
    /\ Len(fetches) < MaxRequests
    /\ registered' = TRUE
    /\ fetches' = Append(fetches, NewFetch)
    /\ UNCHANGED <<response, games, analysis, progress, ttl, jobs>>

\* POST /auth/refresh-games: the ingestion task is enqueued again, whatever
\* the state of a running batch.
refresh_games ==
    /\ registered
    /\ Len(fetches) < MaxRequests
    /\ fetches' = Append(fetches, NewFetch)
    /\ UNCHANGED <<response, registered, games, analysis, progress, ttl, jobs>>

\* ------------------------------------------------- fetch_user_games_task
\* The first progress write of the task.
FetchStartMapping ==
    [status |-> "fetching", games_total |-> 0, games_completed |-> 0,
     percentage |-> 0]

fetch_begin(t, ok) ==
    /\ fetches[t].pc = "queued"
    /\ progress' = update_analysis_progress(progress, FetchStartMapping, ok)
    /\ ttl' = expire(ttl, ok)
    /\ fetches' = [fetches EXCEPT ![t].pc = "fetching"]
    /\ UNCHANGED <<response, registered, games, analysis, jobs>>

\* lichess_service.fetch_user_games returns data, and the loop over
\* games_data stages every game of it for which no row with its external id
\* exists.
fetch_games(t, data) ==
    /\ fetches[t].pc = "fetching"
    /\ fetches' = [fetches EXCEPT
                     ![t].pc = "staged",
                     ![t].new = SetToSeq({l \in data : ~GameExists(l)})]
    /\ UNCHANGED <<response, registered, games, analysis, progress, ttl, jobs>>

NewGame(l) ==
    [user_id |-> UserId, lichess_game_id |-> l, analyzed |-> FALSE,
     analysis_started_at |-> FALSE]

\* One of the staged games has been stored by another task meanwhile:
\* lichess_game_id is unique, and the commit raises.
CommitConflict(t) ==
    \E i \in 1..Len(fetches[t].new) : GameExists(fetches[t].new[i])

\* db.commit() of the staged games.
fetch_commit(t) ==
    /\ fetches[t].pc = "staged"
    /\ ~CommitConflict(t)
    /\ LET new == fetches[t].new
           n == Len(games)
       IN /\ games' = games \o [i \in 1..Len(new) |-> NewGame(new[i])]
          /\ fetches' = [fetches EXCEPT
                           ![t].pc = "committed",
                           ![t].new = << >>,
                           ![t].stored = [i \in 1..Len(new) |-> n + i]]
    /\ UNCHANGED <<response, registered, analysis, progress, ttl, jobs>>

\* The second progress write of the task.
FetchDoneMapping(stored) ==
    [status |-> "analyzing", games_total |-> Len(stored),
     games_completed |-> 0, percentage |-> 0]

fetch_announce(t, ok) ==
    /\ fetches[t].pc = "committed"
    /\ progress' = update_analysis_progress(
                       progress, FetchDoneMapping(fetches[t].stored), ok)
    /\ ttl' = expire(ttl, ok)
    /\ fetches' = [fetches EXCEPT ![t].pc = "announced"]
    /\ UNCHANGED <<response, registered, games, analysis, jobs>>

\* analyze_game_task.delay(game_id): a task instance with, as history, the
\* batch it belongs to.
NewJob(g, t) == [game_id |-> g, batch |-> t, pc |-> "queued"]

\* analyze_game_task.delay(game.id) for every stored game.
fetch_enqueue(t) ==
    /\ fetches[t].pc = "announced"
    /\ jobs' = jobs \o [i \in 1..Len(fetches[t].stored) |->
                           NewJob(fetches[t].stored[i], t)]
    /\ fetches' = [fetches EXCEPT ![t].pc = "done"]
    /\ UNCHANGED <<response, registered, games, analysis, progress, ttl>>

FetchFailedMapping == [status |-> "failed", error_message |-> "error"]

\* The except branch of the task, entered when fetch_user_games raises (HTTP
\* error, network error) or when the commit raises: the failure is written
\* to the progress hash and re-raised.
fetch_fail(t, ok) ==
    /\ \/ fetches[t].pc = "fetching"
       \/ fetches[t].pc = "staged" /\ CommitConflict(t)
    /\ progress' = update_analysis_progress(progress, FetchFailedMapping, ok)
    /\ ttl' = expire(ttl, ok)
    /\ fetches' = [fetches EXCEPT ![t].pc = "failed", ![t].new = << >>]
    /\ UNCHANGED <<response, registered, games, analysis, jobs>>

\* ------------------------------------------------------ analyze_game_task
GameOf(j) == jobs[j].game_id

PliesOf(g) == Plies(games[g].lichess_game_id)

\* db.query(Game).filter(Game.id == g).first() is not None
GameFound(g) == g \in 1..Len(games) /\ games[g].user_id # None

JobStartMapping(g) == [status |-> "analyzing", current_game_id |-> g]

\* The lookup of the game, the commit of analysis_started_at and the
\* progress write before the analysis.  A job whose game row is missing
\* logs an error and returns.
job_begin(j, ok) ==
    /\ jobs[j].pc = "queued"
    /\ IF GameFound(GameOf(j))
       THEN /\ games' = [games EXCEPT ![GameOf(j)].analysis_started_at = TRUE]
            /\ progress' = update_analysis_progress(
                               progress, JobStartMapping(GameOf(j)), ok)
            /\ ttl' = expire(ttl, ok)
            /\ jobs' = [jobs EXCEPT ![j].pc = "marked"]
       ELSE /\ jobs' = [jobs EXCEPT ![j].pc = "dropped"]
            /\ UNCHANGED <<games, progress, ttl>>
    /\ UNCHANGED <<response, registered, analysis, fetches>>

\* ResultRows with move_number i for the i-th move of the loop, counted
\* from 0.
ResultRowsFromZero(g, n) ==
    [i \in 1..n |-> [game_id |-> g, move_number |-> i - 1]]

\* The rows built from the results of analyze_game: move_number is i + 1
\* for the i-th move of the loop.
ResultRows(g, n) == [i \in 1..n |-> [game_id |-> g, move_number |-> i]]

\* job_store marking the game analyzed only when there is a result to
\* store.
job_store_nonempty(j) ==
    /\ jobs[j].pc = "marked"
    /\ analysis' = analysis \o ResultRows(GameOf(j), PliesOf(GameOf(j)))
    /\ jobs' = [jobs EXCEPT ![j].pc = "stored"]
    /\ games' = [games EXCEPT
                   ![GameOf(j)].analyzed = PliesOf(GameOf(j)) > 0]
    /\ UNCHANGED <<response, registered, progress, ttl, fetches>>

\* analyze_game returns the results of all plies; they are added to the
\* session, the game is marked analyzed and the session is committed.
job_store(j) ==
    /\ jobs[j].pc = "marked"
    /\ analysis' = analysis \o ResultRows(GameOf(j), PliesOf(GameOf(j)))
    /\ jobs' = [jobs EXCEPT ![j].pc = "stored"]
    /\ games' = [games EXCEPT ![GameOf(j)].analyzed = TRUE]
    /\ UNCHANGED <<response, registered, progress, ttl, fetches>>

JobDoneMapping == [games_completed |-> 1, current_game_id |-> None]

JobFailedMapping ==
    [games_failed |-> 1, status |-> "failed", error_message |-> "error"]

\* job_complete with a progress write that lets the exception of the Redis
\* client through: the except branch of the task is entered after the commit.
job_complete_raising(j, ok) ==
    /\ jobs[j].pc = "stored"
    /\ progress' = update_analysis_progress(
                       progress, IF ok THEN JobDoneMapping ELSE JobFailedMapping, ok)
    /\ ttl' = expire(ttl, ok)
    /\ games' = [games EXCEPT ![GameOf(j)].analysis_started_at = ok]
    /\ jobs' = [jobs EXCEPT ![j].pc = IF ok THEN "done" ELSE "failed"]
    /\ UNCHANGED <<response, registered, analysis, fetches>>

\* The progress write after the commit; the task returns.
job_complete(j, ok) ==
    /\ jobs[j].pc = "stored"
    /\ progress' = update_analysis_progress(progress, JobDoneMapping, ok)
    /\ ttl' = expire(ttl, ok)
    /\ jobs' = [jobs EXCEPT ![j].pc = "done"]
    /\ UNCHANGED <<response, registered, games, analysis, fetches>>

\* analyze_game raises (the PGN cannot be read, the engine cannot be
\* launched, an evaluation fails) and the results so far are dropped with
\* the call.  The except branch: analysis_started_at is cleared and
\* committed, the failure is written to the progress hash and the exception
\* is re-raised.
job_fail(j, ok) ==
    /\ jobs[j].pc = "marked"
    /\ games' = [games EXCEPT ![GameOf(j)].analysis_started_at = FALSE]
    /\ progress' = update_analysis_progress(progress, JobFailedMapping, ok)
    /\ ttl' = expire(ttl, ok)
    /\ jobs' = [jobs EXCEPT ![j].pc = "failed"]
    /\ UNCHANGED <<response, registered, analysis, fetches>>

\* ---------------------------------------------------------- specification
Init ==
    /\ registered = FALSE
    /\ games = << >>
    /\ analysis = << >>
    /\ progress = NoHash
    /\ fetches = << >>
    /\ jobs = << >>
    /\ response = NoResponse
    /\ ttl = NoTtl

Fetches == 1..Len(fetches)

Jobs == 1..Len(jobs)

\* The steps of the task instances; OK is the set of outcomes of a call of
\* the Redis client: TRUE, the call succeeds; FALSE, it raises.
Tasks(OK) ==
    \/ \E t \in Fetches, ok \in OK : fetch_begin(t, ok)
    \/ \E t \in Fetches, data \in Answers : fetch_games(t, data)
    \/ \E t \in Fetches : fetch_commit(t)
    \/ \E t \in Fetches, ok \in OK : fetch_announce(t, ok)
    \/ \E t \in Fetches : fetch_enqueue(t)
    \/ \E t \in Fetches, ok \in OK : fetch_fail(t, ok)
    \/ \E j \in Jobs, ok \in OK : job_begin(j, ok)
    \/ \E j \in Jobs : job_store(j)
    \/ \E j \in Jobs, ok \in OK : job_complete(j, ok)
    \/ \E j \in Jobs, ok \in OK : job_fail(j, ok)

\* The progress store is reachable: every write of the progress hash lands.
Next ==
    \/ register
    \/ refresh_games
    \/ Tasks({TRUE})

Spec == Init /\ [][Next]_vars

\* The batch of a registration, with a progress store that may be
\* unreachable at any write.
NextOutage ==
    \/ register
    \/ Tasks(BOOLEAN)

SpecOutage == Init /\ [][NextOutage]_vars

\* ------------------------------------------- operations beside the API
\* analyze_game_task.delay(g) for a stored game whose earlier job has ended:
\* the job of the game is run again.
analyze_game_task_delay(g) ==
    /\ Len(jobs) < MaxGames + MaxReruns
    /\ \E j \in Jobs : GameOf(j) = g
    /\ \A j \in Jobs : GameOf(j) = g => jobs[j].pc \in {"done", "failed"}
    /\ jobs' = Append(jobs, NewJob(g, None))
    /\ UNCHANGED <<response, registered, games, analysis, progress, ttl, fetches>>

\* The slot of a games row that is gone.
NoGame ==
    [user_id |-> None, lichess_game_id |-> None, analyzed |-> FALSE,
     analysis_started_at |-> FALSE]

RECURSIVE RowsNotOf(_, _)
RowsNotOf(rows, g) ==
    IF rows = << >> THEN << >>
    ELSE IF Head(rows).game_id = g THEN RowsNotOf(Tail(rows), g)
         ELSE <<Head(rows)>> \o RowsNotOf(Tail(rows), g)

\* A games row is removed while its job is queued; its analysis rows go
\* with it (cascade of Game.analysis).
delete_game(g) ==
    /\ GameFound(g)
    /\ \E j \in Jobs : GameOf(j) = g /\ jobs[j].pc = "queued"
    /\ games' = [games EXCEPT ![g] = NoGame]
    /\ analysis' = RowsNotOf(analysis, g)
    /\ UNCHANGED <<response, registered, progress, ttl, fetches, jobs>>

\* The key of the progress hash expires, 24 hours after its last write.
key_expires ==
    /\ progress # NoHash
    /\ progress' = NoHash
    /\ ttl' = NoTtl
    /\ UNCHANGED <<response, registered, games, analysis, fetches, jobs>>

\* The batch of a registration, jobs run again, rows removed and the key of
\* the progress hash expiring.
NextOps ==
    \/ register
    \/ Tasks({TRUE})
    \/ \E g \in 1..Len(games) : analyze_game_task_delay(g)
    \/ \E g \in 1..Len(games) : delete_game(g)
    \/ key_expires

SpecOps == Init /\ [][NextOps]_vars

\* ------------------------------------------------------------- read model
\* get_analysis_progress answering a missing key with a record of zeros
\* instead of None.
get_analysis_progress_zeros(h) ==
    IF h = NoHash THEN [games_total |-> 0] ELSE h

\* get_analysis_progress: the hash as a dict, or None when the key does not
\* exist; the counters are read with int().
get_analysis_progress(h) == h

\* The percentage field of the response is a float with one decimal: it is
\* held here in tenths of a percent.
Tenths(x) == 10 * x

\* The percentage field of the hash is a float: it is held here in
\* hundredths of a percent.
Hundredths(x) == 100 * x

\* round(percentage, 1), from hundredths to tenths; a value half-way
\* between two tenths goes to the even one.
Round1(p) ==
    IF p % 10 = 5
    THEN (IF (p \div 10) % 2 = 0 THEN p \div 10 ELSE p \div 10 + 1)
    ELSE (p + 5) \div 10

\* The minutes of the estimate rounded to the nearest minute instead.
EstimatedMinutesRounded(p) == ((Hundredths(100) - p) * 2 + 50) \div 100

\* int((100 - percentage) * 2), the minutes of the estimate.
EstimatedMinutes(p) == ((Hundredths(100) - p) * 2) \div 100

\* GET /analysis/status: the response built from the progress hash.  The
\* estimate is << >> for null and <<m>> for the string "m minutes".
get_analysis_status(h) ==
    IF get_analysis_progress(h) = NoHash
    THEN [games_total |-> 0, games_completed |-> 0, games_failed |-> 0,
          percentage |-> Tenths(0), status |-> "no_analysis_running",
          estimated_completion |-> << >>,
          is_complete |-> TRUE]
    ELSE LET p == get_analysis_progress(h)
             percentage == Get(p, "percentage", 0)
             status == Get(p, "status", "unknown")
         IN [games_total |-> Get(p, "games_total", 0),
             games_completed |-> Get(p, "games_completed", 0),
             games_failed |-> Get(p, "games_failed", 0),
             percentage |-> Round1(percentage),
             status |-> status,
             estimated_completion |->
                 IF percentage > 0 /\ percentage < Hundredths(100)
                 THEN <<EstimatedMinutes(percentage)>>
                 ELSE << >>,
             is_complete |-> (percentage >= Hundredths(100)
                                  \/ status = "completed")]

\* ----------------------------------------------------------------- claims
\* The jobs that have reported.
Reported(j) == jobs[j].pc \in {"done", "failed"}

Succeeded == {j \in Jobs : jobs[j].pc = "done"}

Failed == {j \in Jobs : jobs[j].pc = "failed"}

\* The counters as a reader of the hash gets them.
Completed == Get(progress, "games_completed", 0)

FailedCount == Get(progress, "games_failed", 0)

Total == Get(progress, "games_total", 0)

Status == Get(progress, "status", "unknown")

\* Exactly one batch has been started and its jobs are enqueued: nothing
\* but the jobs of this batch writes the counters from here on.
OneBatch == Len(fetches) = 1 /\ fetches[1].pc = "done"

AllReported == \A j \in Jobs : Reported(j)

\* C1: once every job of a batch of N games has reported, games_completed +
\* games_failed = N and status = 'completed'.
C1_BatchCompletes ==
    (OneBatch /\ AllReported)
        => /\ Completed + FailedCount = Len(fetches[1].stored)
           /\ Status = "completed"

\* C2: no counter update is lost: games_completed + games_failed is the
\* number of completion and failure updates issued (here: since the only
\* reset of the counters).
C2_NoLostUpdate ==
    OneBatch => Completed + FailedCount = Cardinality(Succeeded \cup Failed)

\* C3: games_completed + games_failed <= games_total in every reachable
\* state, also after a second batch is started.
C3_CountersWithinTotal == Completed + FailedCount <= Total

\* C5: the failure of one game's job never sets the status to 'failed':
\* while no ingestion task has failed, the status is not 'failed'.
C5_GameFailureKeepsStatus ==
    (\A t \in Fetches : fetches[t].pc # "failed") => Status # "failed"

\* A batch is running: the status is 'analyzing' and a job that was enqueued
\* has not reported.
BatchRunning == Status = "analyzing" /\ \E j \in Jobs : ~Reported(j)

\* C6: an ingestion task that runs while a batch is running leaves
\* games_total, games_completed and games_failed as they are.
C6_RefreshKeepsCounters ==
    [][(/\ BatchRunning
        /\ \E t \in Fetches : fetches[t].pc # fetches'[t].pc)
           => /\ Get(progress', "games_total", 0) = Total
              /\ Get(progress', "games_completed", 0) = Completed
              /\ Get(progress', "games_failed", 0) = FailedCount]_vars

\* C7: the percentage of the status response is 100 * (games_completed +
\* games_failed) / games_total when games_total > 0, and 0 otherwise.
C7_PercentageDerived ==
    LET r == get_analysis_status(progress)
    IN IF r.games_total > 0
       THEN r.percentage * r.games_total
                = Tenths(100) * (r.games_completed + r.games_failed)
       ELSE r.percentage = Tenths(0)

\* C8: every game whose analysis raised is counted as exactly one failed
\* game, with the error message recorded, and its siblings run to their own
\* outcome: when all jobs of the batch have reported, games_failed is the
\* number of jobs that failed.
C8_EachFailureCounted ==
    (OneBatch /\ AllReported)
        => /\ FailedCount = Cardinality(Failed)
           /\ (Failed # {} => "error_message" \in DOMAIN progress)

\* The complete record set of game g: one row per ply, move numbers 1..n in
\* this order.
Complete(g) == MovesOf(analysis, g) = [i \in 1..PliesOf(g) |-> i]

\* C9: a failed write of the progress hash is swallowed: the step of a job
\* that writes the hash never takes the job into its except branch, and the
\* job that has committed its results ends as done, with the game analyzed
\* and its records persisted.
C9_WriteFailureSwallowed ==
    [][\A j \in Jobs :
         /\ (jobs[j].pc = "queued" /\ jobs'[j].pc # "queued")
               => jobs'[j].pc \in {"marked", "dropped"}
         /\ (jobs[j].pc = "stored" /\ jobs'[j].pc # "stored")
               => /\ jobs'[j].pc = "done"
                  /\ games'[GameOf(j)].analyzed
                  /\ MovesOf(analysis', GameOf(j))
                        = [i \in 1..PliesOf(GameOf(j)) |-> i]]_vars

\* A job is done, its game of at least one ply is analyzed with its records
\* persisted, and no write of the progress hash has ever landed.
C9_Witness ==
    \E j \in Jobs :
        /\ jobs[j].pc = "done"
        /\ progress = NoHash
        /\ PliesOf(GameOf(j)) >= 1
        /\ games[GameOf(j)].analyzed
        /\ Complete(GameOf(j))

\* C10, as claimed: analyzed is true if and only if the complete record set
\* of the game is persisted.
C10_AnalyzedIffComplete ==
    \A g \in 1..Len(games) : games[g].analyzed <=> Complete(g)

\* C10, amended: analyzed is true only if the complete record set of the
\* game is persisted, and it is true once the job of the game has committed
\* its results.
C10_AnalyzedOnlyIfComplete ==
    \A g \in 1..Len(games) :
        /\ games[g].analyzed => Complete(g)
        /\ \A j \in Jobs :
              (GameOf(j) = g /\ jobs[j].pc \in {"stored", "done"})
                  => games[g].analyzed

\* One job has failed and left its game unanalyzed and without records, and
\* another game of at least one ply is analyzed with its complete record set.
C10_Witness ==
    /\ \E j \in Jobs :
          /\ jobs[j].pc = "failed"
          /\ ~games[GameOf(j)].analyzed
          /\ MovesOf(analysis, GameOf(j)) = << >>
    /\ \E g \in 1..Len(games) :
          /\ PliesOf(g) >= 1
          /\ games[g].analyzed
          /\ Complete(g)

\* ---------------------------------------------------------------------
\* backend/core.py: the single-module pipeline.  Its database helpers are
\* stubs; they are modelled by what their docstrings say they do.

\* POST /auth/register of core.py: the user is created and the background
\* task fetch_and_store_games is added.
register_user ==
    /\ ~registered
    /\ Len(fetches) < MaxRequests
    /\ registered' = TRUE
    /\ fetches' = Append(fetches, NewFetch)
    /\ UNCHANGED <<response, games, analysis, progress, ttl, jobs>>

\* store_game_in_db for every game of the answer.
store_game_in_db(gs, data) ==
    gs \o [i \in 1..Cardinality(data) |-> NewGame(SetToSeq(data)[i])]

\* get_user_game_ids: all game ids of the user.
get_user_game_ids(gs) == [g \in 1..Len(gs) |-> g]

NewCoreJob(g, t) ==
    [game_id |-> g, batch |-> t, pc |-> "queued", current_progress |-> NoHash]

\* fetch_and_store_games: the games of the answer are stored and one
\* analyze_game_task is enqueued for every game of the user.  The task
\* writes nothing to the progress hash.
fetch_and_store_games(t, data) ==
    /\ fetches[t].pc = "queued"
    /\ games' = store_game_in_db(games, data)
    /\ jobs' = jobs \o [i \in 1..Len(games') |->
                           NewCoreJob(get_user_game_ids(games')[i], t)]
    /\ fetches' = [fetches EXCEPT ![t].pc = "done",
                                  ![t].stored = SetToSeq(data)]
    /\ UNCHANGED <<response, registered, analysis, progress, ttl>>

\* The call of update_analysis_progress a job is about to make, from its
\* position in analyze_game_task.
CoreStatus(pc) ==
    CASE pc \in {"queued", "read_analyzing"} -> "analyzing"
      [] pc \in {"stored", "read_completed"} -> "completed"
      [] OTHER -> "failed"

\* update_analysis_progress of core.py, first half: hgetall.
core_progress_read(j) ==
    /\ jobs[j].pc \in {"queued", "stored", "raised"}
    /\ jobs' = [jobs EXCEPT ![j].current_progress = progress,
                            ![j].pc = "read_" \o CoreStatus(jobs[j].pc)]
    /\ UNCHANGED <<response, registered, games, analysis, progress, ttl, fetches>>

\* The mapping update_analysis_progress of core.py writes, from the hash it
\* has read; the percentage is kept in hundredths.
CoreMapping(cur, g, status) ==
    LET games_total == Get(cur, "games_total", 0)
        games_completed == Get(cur, "games_completed", 0)
                              + (IF status = "completed" THEN 1 ELSE 0)
    IN  [games_total |-> games_total,
         games_completed |-> games_completed,
         percentage |-> IF games_total > 0
                        THEN (Hundredths(100) * games_completed) \div games_total
                        ELSE 0,
         current_game |-> g,
         status |-> status]

\* update_analysis_progress of core.py, second half: hset.
core_progress_write(j) ==
    /\ jobs[j].pc \in {"read_analyzing", "read_completed", "read_failed"}
    /\ progress' = hset(progress,
                        CoreMapping(jobs[j].current_progress, GameOf(j),
                                    CoreStatus(jobs[j].pc)))
    /\ ttl' = KeyLifetime
    /\ jobs' = [jobs EXCEPT ![j].pc =
                   CASE jobs[j].pc = "read_analyzing" -> "analyzing"
                     [] jobs[j].pc = "read_completed" -> "done"
                     [] OTHER -> "failed"]
    /\ UNCHANGED <<response, registered, games, analysis, fetches>>

\* store_analysis_results: the results are inserted.
store_analysis_results(rows, g, analysis_results) == rows \o analysis_results

\* mark_game_analyzed: the game record is updated.
mark_game_analyzed(gs, g) == [gs EXCEPT ![g].analyzed = TRUE]

\* analyze_game returns: store_analysis_results and mark_game_analyzed.
core_store(j) ==
    /\ jobs[j].pc = "analyzing"
    /\ analysis' = store_analysis_results(
                       analysis, GameOf(j),
                       ResultRows(GameOf(j), PliesOf(GameOf(j))))
    /\ games' = mark_game_analyzed(games, GameOf(j))
    /\ jobs' = [jobs EXCEPT ![j].pc = "stored"]
    /\ UNCHANGED <<response, registered, progress, ttl, fetches>>

\* analyze_game raises: the except branch is entered.
core_raise(j) ==
    /\ jobs[j].pc = "analyzing"
    /\ jobs' = [jobs EXCEPT ![j].pc = "raised"]
    /\ UNCHANGED <<response, registered, games, analysis, progress, ttl, fetches>>

NextCore ==
    \/ register_user
    \/ \E t \in Fetches, data \in Answers : fetch_and_store_games(t, data)
    \/ \E j \in Jobs : core_progress_read(j)
    \/ \E j \in Jobs : core_progress_write(j)
    \/ \E j \in Jobs : core_store(j)
    \/ \E j \in Jobs : core_raise(j)

SpecCore == Init /\ [][NextCore]_vars

\* C4: the status of the progress hash is 'completed' only when
\* games_completed + games_failed equals games_total and every job has
\* reported.
C4_CompletedOnlyWhenAllReported ==
    Status = "completed" =>
        /\ Completed + FailedCount = Total
        /\ \A j \in Jobs : Reported(j)

\* C11: no move number of a game has two analysis records, also after the
\* job of the game has been run again.
C11_OneRecordPerMove ==
    \A i, k \in 1..Len(analysis) :
        (/\ analysis[i].game_id = analysis[k].game_id
         /\ analysis[i].move_number = analysis[k].move_number) => i = k

\* Every job has ended: it returned, raised, or was dropped.
AllEnded == \A j \in Jobs : jobs[j].pc \in {"done", "failed", "dropped"}

\* C14: a batch in which a job was dropped for a missing game, and in which
\* at most one other job reported, still reaches games_completed +
\* games_failed = games_total when all its jobs have ended.
C14_DroppedGameCounted ==
    (/\ OneBatch
     /\ Len(jobs) = Len(fetches[1].stored)
     /\ AllEnded
     /\ \E j \in Jobs : jobs[j].pc = "dropped"
     /\ Cardinality(Succeeded \cup Failed) <= 1)
        => Completed + FailedCount = Total

\* The moves of the status along idle -> fetching -> analyzing ->
\* {completed | failed}; "unknown" is the status of a hash without one.
StatusMoves ==
    {<<"unknown", "fetching">>, <<"fetching", "analyzing">>,
     <<"fetching", "failed">>, <<"analyzing", "completed">>,
     <<"analyzing", "failed">>}

\* C12: a step that changes the status moves it along idle -> fetching ->
\* analyzing -> {completed | failed}, unless it is a step of an ingestion
\* task, which initiates a new batch; in particular a status 'failed' or
\* 'completed' does not go back to 'analyzing' within a batch.
C12_StatusMovesForward ==
    [][(Get(progress', "status", "unknown") # Status)
          => \/ <<Status, Get(progress', "status", "unknown")>> \in StatusMoves
             \/ \E t \in Fetches : fetches'[t].pc # fetches[t].pc]_vars

\* C13: an ingestion task that has written 'failed' has been retried before,
\* and no analysis job was enqueued for it.
C13_FailedOnlyAfterRetries ==
    \A t \in Fetches :
        fetches[t].pc = "failed" =>
            /\ fetches[t].retries > 0
            /\ \A j \in Jobs : jobs[j].batch # t

\* ------------------------------------------------------ the read functions
\* Hundredths of a percent above 100 that a stored percentage goes up to.
MaxOver == 10

\* The percentages of the records read: every value of two decimals from 0
\* to a little over 100 that is not half-way between two tenths.
Percentages == {p \in 0..(Hundredths(100) + MaxOver) : p % 10 # 5}

\* The progress hashes read: no hash, and the hashes with a total, a status
\* and a percentage.
ProgressRecords ==
    {NoHash} \cup
    {[status |-> s, games_total |-> t, games_completed |-> 0,
      games_failed |-> 0, percentage |-> p] :
        s \in {"analyzing", "completed"}, t \in 0..1, p \in Percentages}

\* _categorize_move_quality with the bounds exclusive on the lower tag.
categorize_move_quality_strict(eval_loss) ==
    IF eval_loss < Hundredths(10) THEN "excellent"
    ELSE IF eval_loss < Hundredths(25) THEN "good"
    ELSE IF eval_loss < Hundredths(50) THEN "inaccuracy"
    ELSE IF eval_loss < Hundredths(100) THEN "mistake"
    ELSE "blunder"

\* ChessAnalysisEngine._categorize_move_quality; the loss is a float, held
\* here in hundredths of a centipawn.
categorize_move_quality(eval_loss) ==
    IF eval_loss <= Hundredths(10) THEN "excellent"
    ELSE IF eval_loss <= Hundredths(25) THEN "good"
    ELSE IF eval_loss <= Hundredths(50) THEN "inaccuracy"
    ELSE IF eval_loss <= Hundredths(100) THEN "mistake"
    ELSE "blunder"

\* Largest loss, in centipawns, given to _categorize_move_quality.
MaxLoss == 120

\* The losses classified: around every whole centipawn up to MaxLoss, the
\* value itself, one hundredth above and one hundredth below.
QualityLosses ==
    {l \in 0..Hundredths(MaxLoss) : l % 100 \in {0, 1, 99}}

\* _categorize_move_quality(l) for any loss l; one call is followed per
\* behaviour.
quality_request ==
    /\ response = NoResponse
    /\ \E l \in QualityLosses :
          response' = [op |-> "_categorize_move_quality", eval_loss |-> l,
                       result |-> categorize_move_quality(l)]
    /\ UNCHANGED <<registered, games, analysis, progress, ttl, fetches, jobs>>

\* round() of the quotient num / den of two naturals to a whole number, a
\* quotient half-way between two numbers going to the even one.
RoundHalfEven(num, den) ==
    LET q == num \div den
        r == num % den
    IN  IF 2 * r < den THEN q
        ELSE IF 2 * r > den THEN q + 1
        ELSE IF q % 2 = 0 THEN q ELSE q + 1

RECURSIVE SumLoss(_)
SumLoss(rows) ==
    IF rows = << >> THEN 0 ELSE Head(rows).eval_loss + SumLoss(Tail(rows))

RECURSIVE CountQuality(_, _)
CountQuality(rows, tag) ==
    IF rows = << >> THEN 0
    ELSE (IF Head(rows).move_quality = tag THEN 1 ELSE 0)
            + CountQuality(Tail(rows), tag)

\* The accuracy score without the max(0, ...).
accuracy_score_unclamped(sum, total_moves) ==
    IF total_moves = 0 THEN Tenths(100)
    ELSE Tenths(100) - RoundHalfEven(10 * sum, 2 * total_moves)

\* round(max(0, 100 - (avg_eval_loss / 2)), 1) in tenths, for the sum of the
\* losses (whole centipawns) and the number of records.
accuracy_score(sum, total_moves) ==
    IF total_moves = 0 THEN Tenths(100)
    ELSE IF 10 * sum >= 2 * total_moves * Tenths(100) THEN 0
    ELSE RoundHalfEven(2 * total_moves * Tenths(100) - 10 * sum,
                       2 * total_moves)

\* The summary block of get_game_analysis for the records of a game; the
\* average is round(avg_eval_loss, 2), held in hundredths.
game_summary(rows) ==
    LET total_moves == Len(rows)
    IN  [total_moves |-> total_moves,
         blunders |-> CountQuality(rows, "blunder"),
         mistakes |-> CountQuality(rows, "mistake"),
         inaccuracies |-> CountQuality(rows, "inaccuracy"),
         average_eval_loss |->
             IF total_moves > 0
             THEN RoundHalfEven(Hundredths(SumLoss(rows)), total_moves)
             ELSE 0,
         accuracy_score |-> accuracy_score(SumLoss(rows), total_moves)]

\* Largest number of records of a game whose summary is asked for.
MaxMoves == 3

\* The losses of the records, in whole centipawns as the engine scores
\* give them.
SummaryLosses == {0, 1, 30, 60, 150, 450}

\* The record analyze_game makes for a loss.
AnalysisRecord(loss) ==
    [eval_loss |-> loss,
     move_quality |-> categorize_move_quality(Hundredths(loss))]

\* The record lists of a game: every list of up to MaxMoves records.
RecordLists ==
    UNION {[1..n -> {AnalysisRecord(l) : l \in SummaryLosses}] : n \in 0..MaxMoves}

\* The summary of get_game_analysis for any record list; one call is
\* followed per behaviour.
summary_request ==
    /\ response = NoResponse
    /\ \E rows \in RecordLists :
          response' = [op |-> "get_game_analysis", analysis_data |-> rows,
                       result |-> game_summary(rows)]
    /\ UNCHANGED <<registered, games, analysis, progress, ttl, fetches, jobs>>

\* abs() of Python.
Abs(x) == IF x >= 0 THEN x ELSE -x

\* _calculate_eval_loss without the abs() in the branch of Black.
calculate_eval_loss_signed(pre_eval, post_eval, is_black_turn) ==
    IF is_black_turn
    THEN (-post_eval) - (-pre_eval)
    ELSE Abs(post_eval - pre_eval)

\* ChessAnalysisEngine._calculate_eval_loss
calculate_eval_loss(pre_eval, post_eval, is_black_turn) ==
    IF is_black_turn
    THEN Abs((-post_eval) - (-pre_eval))
    ELSE Abs(post_eval - pre_eval)

\* The centipawn value that stands for a mate.
MateValue == 10000

\* Largest centipawn score, beside the mate values, given to
\* _calculate_eval_loss.
MaxScore == 3

\* The evaluations _score_to_centipawns returns.
Evals == (-MaxScore..MaxScore) \cup {-MateValue, MateValue}

\* _calculate_eval_loss for any pair of evaluations and any side; one call
\* is followed per behaviour.
eval_loss_request ==
    /\ response = NoResponse
    /\ \E pre_eval \in Evals, post_eval \in Evals, is_black_turn \in BOOLEAN :
          response' = [op |-> "_calculate_eval_loss", pre_eval |-> pre_eval,
                       post_eval |-> post_eval,
                       is_black_turn |-> is_black_turn,
                       result |-> calculate_eval_loss(pre_eval, post_eval,
                                                      is_black_turn)]
    /\ UNCHANGED <<registered, games, analysis, progress, ttl, fetches, jobs>>

\* Largest mate distance of a score.
MaxMate == 3

\* The scores of chess.engine from the point of view of White.  A mate
\* score has the distance mate() returns, positive when White mates and
\* negative when White is mated; the two scores of distance 0 are Mate(0),
\* White is mated on the board, and MateGiven, White has given mate.
Scores ==
    {[is_mate |-> FALSE, score |-> s, mate |-> None, white_mates |-> FALSE] :
        s \in -MaxScore..MaxScore}
    \cup
    {[is_mate |-> TRUE, score |-> None, mate |-> m, white_mates |-> m > 0] :
        m \in -MaxMate..MaxMate}
    \cup
    {[is_mate |-> TRUE, score |-> None, mate |-> 0, white_mates |-> TRUE]}

\* ChessAnalysisEngine._score_to_centipawns
score_to_centipawns(score) ==
    IF score.is_mate
    THEN (IF score.mate > 0 THEN MateValue ELSE -MateValue)
    ELSE score.score

\* _score_to_centipawns for any score; one call is followed per behaviour.
score_request ==
    /\ response = NoResponse
    /\ \E score \in Scores :
          response' = [op |-> "_score_to_centipawns", score |-> score,
                       result |-> score_to_centipawns(score)]
    /\ UNCHANGED <<registered, games, analysis, progress, ttl, fetches, jobs>>

\* _determine_game_phase with the bounds inclusive on the earlier phase.
determine_game_phase_inclusive(piece_count) ==
    IF piece_count >= 28 THEN "opening"
    ELSE IF piece_count >= 12 THEN "middlegame"
    ELSE "endgame"

\* ChessAnalysisEngine._determine_game_phase, for the number of pieces
\* len(board.piece_map()) of the board.
determine_game_phase(piece_count) ==
    IF piece_count > 28 THEN "opening"
    ELSE IF piece_count > 12 THEN "middlegame"
    ELSE "endgame"

\* Largest number of pieces on a board.
MaxPieces == 32

\* _determine_game_phase for a board of any number of pieces; one call is
\* followed per behaviour.
phase_request ==
    /\ response = NoResponse
    /\ \E c \in 0..MaxPieces :
          response' = [op |-> "_determine_game_phase", piece_count |-> c,
                       result |-> determine_game_phase(c)]
    /\ UNCHANGED <<registered, games, analysis, progress, ttl, fetches, jobs>>

\* A second user, beside UserId.
OtherUserId == 2

Users == {UserId, OtherUserId}

\* The games tables read by get_game_analysis: up to MaxGames rows, each of
\* either user, analysed or not.
GameTables ==
    UNION {{[g \in 1..n |-> [NewGame(g) EXCEPT !.user_id = owner[g],
                                              !.analyzed = done[g]]] :
               owner \in [1..n -> Users], done \in [1..n -> BOOLEAN]} :
           n \in 0..MaxGames}

\* The rows of the game_analysis table for a games table: an analysed game
\* has one row per ply, a game not analysed has none.
RECURSIVE AnalysisTable(_, _)
AnalysisTable(gs, g) ==
    IF g > Len(gs) THEN << >>
    ELSE (IF gs[g].analyzed
          THEN [k \in 1..Plies(g) |->
                   [game_id |-> g, move_number |-> k, eval_loss |-> 30,
                    move_quality |-> categorize_move_quality(Hundredths(30))]]
          ELSE << >>) \o AnalysisTable(gs, g + 1)

\* filter(GameAnalysis.game_id == game_id), in the order of the table.
RECURSIVE RowsOf(_, _)
RowsOf(rows, g) ==
    IF rows = << >> THEN << >>
    ELSE IF Head(rows).game_id = g
         THEN <<Head(rows)>> \o RowsOf(Tail(rows), g)
         ELSE RowsOf(Tail(rows), g)

\* order_by(GameAnalysis.move_number): the row with the least move number
\* first, rows of one move number in the order of the table.
RECURSIVE OrderByMoveNumber(_)
OrderByMoveNumber(rows) ==
    IF rows = << >> THEN << >>
    ELSE LET i == CHOOSE i \in 1..Len(rows) :
                     \A k \in 1..Len(rows) :
                         \/ rows[i].move_number < rows[k].move_number
                         \/ rows[i].move_number = rows[k].move_number /\ i <= k
         IN  <<rows[i]>> \o OrderByMoveNumber(
                 [k \in 1..(Len(rows) - 1) |->
                     IF k < i THEN rows[k] ELSE rows[k + 1]])

\* The dict get_game_analysis returns for a game it has found.
GameAnalysisDict(gs, rows, game_id) ==
    LET analysis_data == OrderByMoveNumber(RowsOf(rows, game_id))
    IN  [game_info |-> [id |-> game_id,
                        lichess_id |-> gs[game_id].lichess_game_id],
         analysis |-> [k \in 1..Len(analysis_data) |->
                          [move_number |-> analysis_data[k].move_number,
                           eval_loss |-> analysis_data[k].eval_loss,
                           quality |-> analysis_data[k].move_quality]],
         summary |-> game_summary(analysis_data)]

\* get_game_analysis looking the game up by its id alone.
get_game_analysis_any_user(gs, rows, game_id, user_id) ==
    IF game_id \in 1..Len(gs)
    THEN <<GameAnalysisDict(gs, rows, game_id)>>
    ELSE << >>

\* get_game_analysis(game_id, user_id, db): None, here << >>, when no game
\* has this id and this user, and <<dict>> otherwise.
get_game_analysis(gs, rows, game_id, user_id) ==
    IF game_id \in 1..Len(gs) /\ gs[game_id].user_id = user_id
    THEN <<GameAnalysisDict(gs, rows, game_id)>>
    ELSE << >>

\* GET /analysis/games/{game_id}: 404 for None, the dict otherwise.
get_game_analysis_endpoint(gs, rows, game_id, user_id) ==
    LET analysis_dict == get_game_analysis(gs, rows, game_id, user_id)
    IN  IF analysis_dict = << >>
        THEN [status_code |-> 404, body |-> << >>]
        ELSE [status_code |-> 200, body |-> analysis_dict]

\* GET /analysis/games/{game_id} by any user for any game id, over any
\* games table; one call is followed per behaviour.
game_analysis_request ==
    /\ response = NoResponse
    /\ \E gs \in GameTables, game_id \in 1..(MaxGames + 1), user_id \in Users :
          response' = [op |-> "get_game_analysis_endpoint", games |-> gs,
                       game_id |-> game_id, user_id |-> user_id,
                       result |-> get_game_analysis_endpoint(
                                      gs, AnalysisTable(gs, 1), game_id, user_id)]
    /\ UNCHANGED <<registered, games, analysis, progress, ttl, fetches, jobs>>

\* GET /analysis/status for a user whose progress hash is any h; one call is
\* followed per behaviour.
status_request ==
    /\ response = NoResponse
    /\ \E h \in ProgressRecords :
          response' = [op |-> "get_analysis_status", progress_data |-> h,
                       result |-> get_analysis_status(h)]
    /\ UNCHANGED <<registered, games, analysis, progress, ttl, fetches, jobs>>

NextFunctions ==
    \/ status_request
    \/ quality_request
    \/ summary_request
    \/ eval_loss_request
    \/ score_request
    \/ phase_request
    \/ game_analysis_request

SpecFunctions == Init /\ [][NextFunctions]_vars

\* The status of a progress record has been answered.
StatusAnswered ==
    /\ response.op = "get_analysis_status"
    /\ response.progress_data # NoHash

\* C15, as claimed: is_complete is (percentage >= 100 or status ==
\* 'completed'), the estimate is non-null exactly when 0 < percentage < 100,
\* and it is then (100 - percentage) * 2 minutes.
C15_EstimateExact ==
    StatusAnswered =>
        LET r == response.result
            p == response.progress_data.percentage
        IN  /\ r.is_complete = (p >= Hundredths(100) \/ r.status = "completed")
            /\ (r.estimated_completion # << >>) = (0 < p /\ p < Hundredths(100))
            /\ r.estimated_completion # << >> =>
                  Hundredths(r.estimated_completion[1])
                      = (Hundredths(100) - p) * 2

\* C15, amended: as claimed, with the minutes of the estimate being
\* (100 - percentage) * 2 cut down to a whole number, and the reported
\* percentage being the stored one rounded to one decimal.
C15_EstimateTruncated ==
    StatusAnswered =>
        LET r == response.result
            p == response.progress_data.percentage
        IN  /\ r.is_complete = (p >= Hundredths(100) \/ r.status = "completed")
            /\ (r.estimated_completion # << >>) = (0 < p /\ p < Hundredths(100))
            /\ r.estimated_completion # << >> =>
                  /\ Hundredths(r.estimated_completion[1])
                        <= (Hundredths(100) - p) * 2
                  /\ (Hundredths(100) - p) * 2
                        < Hundredths(r.estimated_completion[1] + 1)
            /\ Tenths(r.percentage) - p \in -5..5

\* The record with percentage 40 is answered with "120 minutes" and
\* is_complete false.
C15_Witness ==
    /\ StatusAnswered
    /\ response.progress_data.percentage = Hundredths(40)
    /\ response.progress_data.status = "analyzing"
    /\ response.result.estimated_completion = <<120>>
    /\ ~response.result.is_complete

\* The response for a user without a progress record.
AbsentResponse == get_analysis_status(NoHash)

TagRank(tag) ==
    CASE tag = "excellent" -> 0
      [] tag = "good" -> 1
      [] tag = "inaccuracy" -> 2
      [] tag = "mistake" -> 3
      [] tag = "blunder" -> 4

\* C18: the tag of a loss L >= 0 is excellent if L <= 10, good if
\* 10 < L <= 25, inaccuracy if 25 < L <= 50, mistake if 50 < L <= 100 and
\* blunder otherwise, and no larger loss gets a better tag.
C18_QualityTags ==
    response.op = "_categorize_move_quality" =>
        LET L == response.eval_loss
            tag == response.result
        IN  /\ (tag = "excellent") = (L <= 1000)
            /\ (tag = "good") = (1000 < L /\ L <= 2500)
            /\ (tag = "inaccuracy") = (2500 < L /\ L <= 5000)
            /\ (tag = "mistake") = (5000 < L /\ L <= 10000)
            /\ (tag = "blunder") = (10000 < L)
            /\ \A l \in QualityLosses :
                  l >= L => TagRank(categorize_move_quality(l)) >= TagRank(tag)

\* The loss 10 has been classified as excellent.
C18_Witness ==
    /\ response.op = "_categorize_move_quality"
    /\ response.eval_loss = 1000
    /\ response.result = "excellent"

\* The part of the summary that is claimed and holds as claimed: the counts.
SummaryCounts(rows, s) ==
    /\ s.total_moves = Len(rows)
    /\ s.blunders = Cardinality({i \in 1..Len(rows) : rows[i].move_quality = "blunder"})
    /\ s.mistakes = Cardinality({i \in 1..Len(rows) : rows[i].move_quality = "mistake"})
    /\ s.inaccuracies = Cardinality({i \in 1..Len(rows) : rows[i].move_quality = "inaccuracy"})
    /\ s.accuracy_score \in 0..Tenths(100)

\* C17, as claimed: the summary counts the records and their tags, the
\* average is the mean loss (0 without records) and the accuracy score is
\* max(0, 100 - average / 2), within 0..100.
C17_SummaryExact ==
    response.op = "get_game_analysis" =>
        LET rows == response.analysis_data
            s == response.result
        IN  /\ SummaryCounts(rows, s)
            /\ s.average_eval_loss * Len(rows) = Hundredths(SumLoss(rows))
            /\ 20 * s.accuracy_score
                  = (IF s.average_eval_loss >= 20000 THEN 0
                     ELSE 20000 - s.average_eval_loss)

\* C17, amended: as claimed, with the average being the mean loss rounded
\* to two decimals and the accuracy score being max(0, 100 - mean / 2),
\* taken from the mean before its rounding, rounded to one decimal.
C17_SummaryRounded ==
    response.op = "get_game_analysis" =>
        LET rows == response.analysis_data
            s == response.result
            n == Len(rows)
            sum == SumLoss(rows)
            exact == IF 10 * sum >= 2000 * n THEN 0 ELSE 2000 * n - 10 * sum
        IN  /\ SummaryCounts(rows, s)
            /\ 2 * (s.average_eval_loss * n - Hundredths(sum)) \in -n..n
            /\ n = 0 => s.accuracy_score = Tenths(100)
            /\ s.accuracy_score * 2 * n - exact \in -n..n

\* The summary of the game with losses 0 and 150: tags excellent and
\* blunder, average 75.0, accuracy 62.5.
C17_Witness ==
    /\ response.op = "get_game_analysis"
    /\ response.analysis_data
          = <<[eval_loss |-> 0, move_quality |-> "excellent"],
              [eval_loss |-> 150, move_quality |-> "blunder"]>>
    /\ response.result
          = [total_moves |-> 2, blunders |-> 1, mistakes |-> 0,
             inaccuracies |-> 0, average_eval_loss |-> 7500,
             accuracy_score |-> 625]

\* C19: the loss is |(-post) - (-pre)| for a Black mover and |post - pre|
\* otherwise: it is never negative, it is the distance of the two
\* evaluations, and the loss for a Black mover is the loss for a White mover
\* on the negated evaluations.
C19_EvalLossSymmetric ==
    response.op = "_calculate_eval_loss" =>
        LET pre == response.pre_eval
            post == response.post_eval
            loss == response.result
        IN  /\ loss >= 0
            /\ IF response.is_black_turn
               THEN loss \in {(-post) - (-pre), (-pre) - (-post)}
               ELSE loss \in {post - pre, pre - post}
            /\ response.is_black_turn =>
                  loss = calculate_eval_loss(-pre, -post, FALSE)

\* The loss of a Black mover who takes the evaluation from -1 to 3.
C19_Witness ==
    /\ response.op = "_calculate_eval_loss"
    /\ response.is_black_turn
    /\ response.pre_eval = -1
    /\ response.post_eval = 3
    /\ response.result = 4

\* C20: a mate score maps to +10000 when White is the mating side and to
\* -10000 when White is being mated, for every mate distance, distance 0
\* included.
C20_MateScoreSign ==
    (response.op = "_score_to_centipawns" /\ response.score.is_mate) =>
        response.result
            = (IF response.score.white_mates THEN MateValue ELSE -MateValue)

\* C21: for every piece count c in 0..32 the phase is opening if c > 28,
\* middlegame if 12 < c <= 28 and endgame if c <= 12.
C21_GamePhase ==
    response.op = "_determine_game_phase" =>
        LET c == response.piece_count
            phase == response.result
        IN  /\ (phase = "opening") = (c > 28)
            /\ (phase = "middlegame") = (12 < c /\ c <= 28)
            /\ (phase = "endgame") = (c <= 12)
            /\ phase \in {"opening", "middlegame", "endgame"}

\* The board of 28 pieces has been classified as middlegame.
C21_Witness ==
    /\ response.op = "_determine_game_phase"
    /\ response.piece_count = 28
    /\ response.result = "middlegame"

ProgressWrites ==
    {FetchStartMapping, FetchDoneMapping(<<1>>), JobStartMapping(1),
     JobDoneMapping, JobFailedMapping}

\* update_analysis_progress command by command: hset raises and nothing is
\* written; hset returns and expire raises; both return.  The function
\* returns True in the last case only.
progress_write ==
    \E m \in ProgressWrites, raised \in {"hset", "expire", "none"} :
        /\ progress' = update_analysis_progress(progress, m, raised # "hset")
        /\ ttl' = expire(ttl, raised = "none")
        /\ response' = [op |-> "update_analysis_progress",
                        result |-> raised = "none"]
        /\ UNCHANGED <<registered, games, analysis, fetches, jobs>>

\* get_analysis_progress: hgetall, which leaves the time to live alone.
progress_read ==
    /\ response' = [op |-> "get_analysis_progress",
                    result |-> get_analysis_progress(progress)]
    /\ UNCHANGED <<registered, games, analysis, progress, ttl, fetches, jobs>>

\* clear_analysis_progress: delete, which may raise.
clear_analysis_progress ==
    \E ok \in BOOLEAN :
        /\ progress' = IF ok THEN NoHash ELSE progress
        /\ ttl' = IF ok THEN NoTtl ELSE ttl
        /\ response' = [op |-> "clear_analysis_progress", result |-> ok]
        /\ UNCHANGED <<registered, games, analysis, fetches, jobs>>

\* Six hours, or a day, pass: a key with an expiry loses them and is
\* removed when nothing is left; a key without an expiry stays.
time_passes ==
    /\ ttl # NoTtl
    /\ \E d \in {6 * 3600, 24 * 3600} :
          IF ttl > d
          THEN ttl' = ttl - d /\ UNCHANGED progress
          ELSE ttl' = NoTtl /\ progress' = NoHash
    /\ UNCHANGED <<response, registered, games, analysis, fetches, jobs>>

NextExpiry ==
    \/ progress_write
    \/ progress_read
    \/ clear_analysis_progress
    \/ time_passes

SpecExpiry == Init /\ [][NextExpiry]_vars

\* C23: no progress record exists without an expiry: a key that exists has
\* between one second and 24 hours left to live, and a key that has expired
\* or was cleared does not exist.
C23_RecordHasExpiry ==
    /\ progress # NoHash => ttl \in 1..KeyLifetime
    /\ progress = NoHash => ttl = NoTtl

\* ------------------------------------------------- analyze_game, by ply
\* chess.WHITE and chess.BLACK: a colour of the chess library is a boolean,
\* and White is the true one.
WHITE == TRUE

BLACK == FALSE

\* Largest number of plies of a game analysed ply by ply.
MaxPlies == 2

\* analyze_game(game) is called by the job of a game of n plies.  The job
\* has the board's side to move, the index of the loop, the results so far,
\* and, for the engine, the number of processes it has launched and whether
\* one of them is running.
NewAnalysis(g, n) ==
    [game_id |-> g, plies |-> n, pc |-> "called", turn |-> WHITE, i |-> 0,
     analysis_results |-> << >>, opened |-> 0, running |-> FALSE]

analyze_game_call ==
    /\ Len(jobs) < MaxGames
    /\ \E n \in 0..MaxPlies :
          jobs' = Append(jobs, NewAnalysis(Len(jobs) + 1, n))
    /\ UNCHANGED <<response, registered, games, analysis, progress, ttl, fetches>>

\* chess.engine.SimpleEngine.popen_uci(path): the process is launched and
\* the engine object returned, or the launch raises.
engine_popen_uci(j, ok) ==
    /\ jobs[j].pc = "called"
    /\ jobs' = [jobs EXCEPT
                  ![j].pc = IF ok THEN "opened" ELSE "raised",
                  ![j].opened = IF ok THEN @ + 1 ELSE @,
                  ![j].running = ok]
    /\ UNCHANGED <<response, registered, games, analysis, progress, ttl, fetches>>

\* async with ... as engine: the block is entered on the engine object.
\* SimpleEngine is the synchronous engine of the library; a statement that
\* raises here, on an object without the asynchronous protocol, has no exit
\* to run, and the process launched stays.
engine_enter(j, ok) ==
    /\ jobs[j].pc = "opened"
    /\ jobs' = [jobs EXCEPT ![j].pc = IF ok THEN "loop" ELSE "raised"]
    /\ UNCHANGED <<response, registered, games, analysis, progress, ttl, fetches>>

\* The side passed to _calculate_eval_loss being the side to move before
\* the push.
SideBeforePush(turn) == turn

\* The side passed to _calculate_eval_loss as is_black_turn: board.turn,
\* read after board.push(move), for a board that had turn before the push.
SideAfterPush(turn) == ~turn

\* analyse_ply recording the position before the move is pushed.
analyse_ply_before_push(j) ==
    /\ jobs[j].pc = "loop"
    /\ jobs[j].i < jobs[j].plies
    /\ jobs' = [jobs EXCEPT
                  ![j].turn = ~@,
                  ![j].i = @ + 1,
                  ![j].analysis_results =
                      Append(@, [move_number |-> jobs[j].i + 1,
                                 position |-> jobs[j].i,
                                 mover |-> jobs[j].turn,
                                 is_black_turn |-> SideAfterPush(jobs[j].turn)])]
    /\ UNCHANGED <<response, registered, games, analysis, progress, ttl, fetches>>

\* One turn of the loop: the position is evaluated, the move is pushed, the
\* resulting position is evaluated and the result appended; position is the
\* number of moves played on the board whose FEN is recorded, mover the
\* side that played the move.
analyse_ply(j) ==
    /\ jobs[j].pc = "loop"
    /\ jobs[j].i < jobs[j].plies
    /\ jobs' = [jobs EXCEPT
                  ![j].turn = ~@,
                  ![j].i = @ + 1,
                  ![j].analysis_results =
                      Append(@, [move_number |-> jobs[j].i + 1,
                                 position |-> jobs[j].i + 1,
                                 mover |-> jobs[j].turn,
                                 is_black_turn |-> SideAfterPush(jobs[j].turn)])]
    /\ UNCHANGED <<response, registered, games, analysis, progress, ttl, fetches>>

\* An exception inside the block (configure or analyse raises, the soft time
\* limit of the queue is raised in the task): the block is left through its
\* exit, which closes the engine.
engine_raise(j) ==
    /\ jobs[j].pc = "loop"
    /\ jobs' = [jobs EXCEPT ![j].pc = "raised", ![j].running = FALSE,
                            ![j].analysis_results = << >>]
    /\ UNCHANGED <<response, registered, games, analysis, progress, ttl, fetches>>

\* The loop is over: the block is left, the engine closed, the results
\* returned.
engine_exit(j) ==
    /\ jobs[j].pc = "loop"
    /\ jobs[j].i = jobs[j].plies
    /\ jobs' = [jobs EXCEPT ![j].pc = "returned", ![j].running = FALSE]
    /\ UNCHANGED <<response, registered, games, analysis, progress, ttl, fetches>>

\* task_time_limit: the worker process of a job that runs too long is
\* killed by the pool; no statement of the task runs any more.
time_limit(j) ==
    /\ jobs[j].pc \in {"opened", "loop"}
    /\ jobs' = [jobs EXCEPT ![j].pc = "killed"]
    /\ UNCHANGED <<response, registered, games, analysis, progress, ttl, fetches>>

\* The loop of analyze_game_task over the results: one row each, added in
\* the order of the list, and the commit.
store_results(j) ==
    /\ jobs[j].pc = "returned"
    /\ analysis' = analysis \o
          [k \in 1..Len(jobs[j].analysis_results) |->
              [game_id |-> jobs[j].game_id,
               move_number |-> jobs[j].analysis_results[k].move_number]]
    /\ jobs' = [jobs EXCEPT ![j].pc = "stored"]
    /\ UNCHANGED <<response, registered, games, progress, ttl, fetches>>

NextEngine ==
    \/ analyze_game_call
    \/ \E j \in Jobs, ok \in BOOLEAN : engine_popen_uci(j, ok)
    \/ \E j \in Jobs, ok \in BOOLEAN : engine_enter(j, ok)
    \/ \E j \in Jobs : analyse_ply(j)
    \/ \E j \in Jobs : engine_raise(j)
    \/ \E j \in Jobs : engine_exit(j)
    \/ \E j \in Jobs : time_limit(j)
    \/ \E j \in Jobs : store_results(j)

SpecEngine == Init /\ [][NextEngine]_vars

\* The call of analyze_game has ended: it returned, it raised, or its
\* worker was killed.
AnalysisEnded(j) == jobs[j].pc \in {"returned", "stored", "raised", "killed"}

\* C24: a job launches at most one engine process, a job that evaluates or
\* has returned has launched exactly one, and no job whose analysis has
\* ended (it returned, it raised, it was cancelled) leaves an engine process
\* running.
C24_EngineScoped ==
    \A j \in Jobs :
        /\ jobs[j].opened <= 1
        /\ jobs[j].pc \in {"loop", "returned", "stored"} => jobs[j].opened = 1
        /\ AnalysisEnded(j) => ~jobs[j].running

\* C25: at every moment the results of a game's analysis are the records
\* 1, 2, ..., k in this order, record i describing the position after the
\* i-th move, a step of the loop appends the next one, and the rows of the
\* game are persisted in the same order: 1, 2, ..., n without gap or repeat.
C25_RecordsInOrder ==
    \A j \in Jobs :
        /\ Len(jobs[j].analysis_results) <= jobs[j].plies
        /\ \A k \in 1..Len(jobs[j].analysis_results) :
              /\ jobs[j].analysis_results[k].move_number = k
              /\ jobs[j].analysis_results[k].position = k
        /\ jobs[j].pc = "loop" => Len(jobs[j].analysis_results) = jobs[j].i
        /\ MovesOf(analysis, jobs[j].game_id)
              = (IF jobs[j].pc = "stored"
                 THEN [k \in 1..jobs[j].plies |-> k] ELSE << >>)

\* Two games of two plies are analysed and stored, each with the rows 1, 2.
C25_Witness ==
    /\ Len(jobs) = 2
    /\ \A j \in Jobs :
          /\ jobs[j].pc = "stored"
          /\ jobs[j].plies = 2
          /\ MovesOf(analysis, jobs[j].game_id) = <<1, 2>>

C26_BatchStartsClean ==
    [][\A t \in Fetches :
         (fetches[t].pc = "committed" /\ fetches'[t].pc = "announced")
            => /\ \A j \in 1..Len(jobs') : jobs'[j].batch # t
               /\ Get(progress', "status", "unknown") = "analyzing"
               /\ Get(progress', "games_total", 0) = Len(fetches[t].stored)
               /\ Get(progress', "games_completed", 0) = 0
               /\ Get(progress', "games_failed", 0) = 0]_vars

\* C28: whatever the interleaving of register and refresh-games, no external
\* game id is stored twice, every job is for a stored game, and no stored
\* game has two jobs: the rows of a game are written by one job at most.
C28_OneJobPerGame ==
    /\ \A g, h \in 1..Len(games) :
          games[g].lichess_game_id = games[h].lichess_game_id => g = h
    /\ \A j \in Jobs : GameFound(GameOf(j))
    /\ \A j, k \in Jobs : GameOf(j) = GameOf(k) => j = k
    /\ \A g \in 1..Len(games) :
          MovesOf(analysis, g) # << >> =>
              \E j \in Jobs : GameOf(j) = g /\ jobs[j].pc \in {"stored", "done"}

\* Two ingestion tasks have run to their end, the second one answered with
\* the game the first had stored and with a new one: each game has its one
\* job, enqueued by the task that stored it, and both are done.
C28_Witness ==
    /\ Len(fetches) = 2
    /\ \A t \in Fetches : fetches[t].pc = "done"
    /\ Len(games) = 2
    /\ Len(jobs) = 2
    /\ jobs[1].batch # jobs[2].batch
    /\ \A j \in Jobs : jobs[j].pc = "done"

\* The job is in flight: it has been enqueued and has not ended.
InFlight(j) == jobs[j].pc \in {"queued", "marked", "stored"}

\* C29: a current_game_id that is not null is the game of a job in flight,
\* and it is null when no job is in flight, after successes and failures
\* alike.
C29_CurrentGameInFlight ==
    LET current_game_id == Get(progress, "current_game_id", None)
    IN  /\ current_game_id # None =>
              \E j \in Jobs : GameOf(j) = current_game_id /\ InFlight(j)
        /\ (\A j \in Jobs : ~InFlight(j)) => current_game_id = None

\* C30: the endpoint answers with the game and its records only when the
\* game exists and belongs to the requesting user; for a game id that does
\* not exist or belongs to another user it answers 404 with nothing,
\* whether that game is analysed or not.
C30_OnlyOwnGames ==
    response.op = "get_game_analysis_endpoint" =>
        LET gs == response.games
            g == response.game_id
            r == response.result
            owned == g \in 1..Len(gs) /\ gs[g].user_id = response.user_id
        IN  /\ ~owned => r = [status_code |-> 404, body |-> << >>]
            /\ owned =>
                  /\ r.status_code = 200
                  /\ r.body[1].game_info.id = g
                  /\ Len(r.body[1].analysis)
                        = (IF gs[g].analyzed THEN Plies(g) ELSE 0)

\* The analysed game of another user has been asked for and answered with
\* 404 and nothing.
C30_Witness ==
    /\ response.op = "get_game_analysis_endpoint"
    /\ response.game_id \in 1..Len(response.games)
    /\ response.games[response.game_id].user_id # response.user_id
    /\ response.games[response.game_id].analyzed
    /\ Plies(response.game_id) > 0
    /\ response.result = [status_code |-> 404, body |-> << >>]

====
